---- MODULE Spec2Model ----
(***************************************************************************)
(* Model of wi_sales_downloader.py: the month generator, the existence     *)
(* probe, the two fetchers with their encoding fallback, and the loop of   *)
(* main().  Python strings are sequences of one-character strings (a       *)
(* literal such as ".zip" is kept as one token); byte strings are          *)
(* sequences of numbers 0..255.                                            *)
(***************************************************************************)
EXTENDS Integers, Sequences, FiniteSets, TLC

VARIABLES
    start_date,        \* args.start_date, a string "YYYY-MM"
    now,               \* datetime.now() as <<year, month>>
    gen_pc,            \* generate_months: "start", "yielded" or "exhausted"
    current_year,      \* generate_months: current_year
    current_month,     \* generate_months: current_month
    yielded,           \* every string generate_months has yielded, in order
    pc,                \* position of main()
    existing_files,    \* main: existing_files (stems of *.csv at start)
    dir_files,         \* names of the files in args.path
    downloaded,        \* main: downloaded
    skipped,           \* main: skipped
    consecutive_404s,  \* main: consecutive_404s
    requests,          \* every HTTP request issued, in order: <<method, url>>
    found,             \* urls for which file_exists returned True
    outcomes,          \* per processed month <<filename, "skip"|"found"|"miss">>
    fetch_ok,          \* filenames whose fetcher returned True
    caught,            \* exception class the last fetcher call caught
    stopped,           \* the break of line 204 was taken
    summaries,         \* number of summary lines printed
    csv_content,       \* fetcher: bytes to decode
    os_linesep,        \* os.linesep of the platform, as bytes
    variant,           \* fetcher under test: "zip" or "csv"
    fetcher_pc,        \* fetcher under test: "call" or "returned"
    fetcher_result     \* fetcher under test: what the call produced

vars == <<start_date, now, gen_pc, current_year, current_month, yielded, pc,
          existing_files, dir_files, downloaded, skipped, consecutive_404s,
          requests, found, outcomes, fetch_ok, caught, stopped, summaries,
          csv_content, os_linesep, variant, fetcher_pc, fetcher_result>>

genVars == <<gen_pc, current_year, current_month, yielded>>
mainVars == <<pc, existing_files, dir_files, downloaded, skipped,
              consecutive_404s, requests, found, outcomes, fetch_ok, caught,
              stopped, summaries>>
fetcherVars == <<csv_content, os_linesep, variant, fetcher_pc, fetcher_result>>

-----------------------------------------------------------------------------
(* Bounds of the model *)

\* longest month range (start..now) the controller runs over
MaxSpan == 5
\* month range of the runs that start from a nearly empty directory
StreakSpan == 6
\* the generator alone is run over YearSpan + 1 calendar years
YearSpan == 1
\* longest month range of the runs checked for termination
LiveSpan == 4
\* longest byte string handed to the decoder
MaxLen == 3

\* datetime.now() of the controller runs
NowDate == <<2020, 3>>

-----------------------------------------------------------------------------
(* Strings *)

DigitChars == <<"0", "1", "2", "3", "4", "5", "6", "7", "8", "9">>

RECURSIVE Digits(_)
Digits(n) == IF n < 10 THEN <<DigitChars[n + 1]>>
             ELSE Append(Digits(n \div 10), DigitChars[(n % 10) + 1])

RECURSIVE ZeroPad(_, _)
ZeroPad(s, width) == IF Len(s) >= width THEN s ELSE ZeroPad(<<"0">> \o s, width)

\* f"{n:0{width}d}" for n >= 0
Format(n, width) == ZeroPad(Digits(n), width)

DigitValue(c) == CHOOSE d \in 0..9 : DigitChars[d + 1] = c

RECURSIVE ParseInt(_)
\* int(s) for a string of decimal digits
ParseInt(s) == IF Len(s) = 0 THEN 0
               ELSE 10 * ParseInt(SubSeq(s, 1, Len(s) - 1)) + DigitValue(s[Len(s)])

RECURSIVE Split(_, _)
\* s.split(sep) for a one-character separator
Split(s, sep) ==
    IF \E i \in 1..Len(s) : s[i] = sep
    THEN LET i == CHOOSE k \in 1..Len(s) :
                      s[k] = sep /\ \A j \in 1..(k - 1) : s[j] # sep
         IN <<SubSeq(s, 1, i - 1)>> \o Split(SubSeq(s, i + 1, Len(s)), sep)
    ELSE <<s>>

-----------------------------------------------------------------------------
(* generate_months *)

\* the while condition of line 58
InRange(year, month) ==
    \/ year < now[1]
    \/ (year = now[1] /\ month <= now[2])

\* faulty variant: the year is never wrapped
MutAdvanceNoWrap(year, month) == <<year, month + 1>>
\* lines 60-63: the position after the one just yielded
Advance(year, month) ==
    IF month + 1 > 12 THEN <<year + 1, 1>> ELSE <<year, month + 1>>

\* line 59
MonthString(year, month) == Format(year, 4) \o Format(month, 2)

\* the position the generator tests when it is resumed
Resume ==
    IF gen_pc = "start"
    THEN LET parts == Split(start_date, "-")
         IN <<ParseInt(parts[1]), ParseInt(parts[2])>>
    ELSE Advance(current_year, current_month)

\* One next() on the generator: yield the next month or stop.
GenNext ==
    /\ gen_pc \in {"start", "yielded"}
    /\ LET p == Resume
       IN /\ current_year' = p[1]
          /\ current_month' = p[2]
          /\ IF InRange(p[1], p[2])
             THEN /\ gen_pc' = "yielded"
                  /\ yielded' = Append(yielded, MonthString(p[1], p[2]))
             ELSE /\ gen_pc' = "exhausted"
                  /\ yielded' = yielded

\* list(generate_months(start_date)): the generator on its own
Generate ==
    /\ GenNext
    /\ UNCHANGED <<start_date, now>>
    /\ UNCHANGED mainVars
    /\ UNCHANGED fetcherVars

\* "YYYY-MM"; the month is also accepted without its leading zero
StartDate(year, month, width) == Format(year, 4) \o <<"-">> \o Format(month, width)

GenYears == (NowDate[1] - 1)..(NowDate[1] - 1 + YearSpan)

IdleMain ==
    /\ pc = "idle"
    /\ existing_files = {}
    /\ dir_files = {}
    /\ downloaded = 0
    /\ skipped = 0
    /\ consecutive_404s = 0
    /\ requests = <<>>
    /\ found = {}
    /\ outcomes = <<>>
    /\ fetch_ok = {}
    /\ caught = "none"
    /\ stopped = FALSE
    /\ summaries = 0

IdleFetcher ==
    /\ csv_content = <<>>
    /\ os_linesep = <<10>>
    /\ variant = "zip"
    /\ fetcher_pc = "idle"
    /\ fetcher_result = <<>>

IdleGen ==
    /\ gen_pc = "start"
    /\ current_year = 0
    /\ current_month = 0
    /\ yielded = <<>>

InitMonths ==
    /\ \E y \in GenYears, m \in 1..12, w \in 1..2 : start_date = StartDate(y, m, w)
    /\ now \in GenYears \X (1..12)
    /\ IdleGen
    /\ IdleMain
    /\ IdleFetcher

NextMonths == Generate

SpecMonths == InitMonths /\ [][NextMonths]_vars

-----------------------------------------------------------------------------
(* C1 *)

MonthIndex(year, month) == 12 * year + (month - 1)
MonthOfIndex(i) == <<i \div 12, (i % 12) + 1>>

StartPair == LET parts == Split(start_date, "-")
             IN <<ParseInt(parts[1]), ParseInt(parts[2])>>

\* the calendar months from the start month to the current month, ascending
ExpectedCount ==
    LET n == MonthIndex(now[1], now[2]) - MonthIndex(StartPair[1], StartPair[2]) + 1
    IN IF n < 0 THEN 0 ELSE n

ExpectedMonths ==
    [i \in 1..ExpectedCount |->
        LET p == MonthOfIndex(MonthIndex(StartPair[1], StartPair[2]) + i - 1)
        IN Format(p[1], 4) \o Format(p[2], 2)]

\* C1: generate_months yields exactly the calendar months from the start
\* month to the current month inclusive, ascending, one per month, with the
\* month always in 1..12; it yields nothing when the start is after now.
C1_GenerateMonths ==
    /\ gen_pc # "start" => current_month \in 1..12
    /\ Len(yielded) <= ExpectedCount
    /\ yielded = SubSeq(ExpectedMonths, 1, Len(yielded))
    /\ gen_pc = "exhausted" => yielded = ExpectedMonths

\* a finished enumeration that crossed a year boundary
C1_Witness ==
    /\ gen_pc = "exhausted"
    /\ Len(yielded) >= 3
    /\ \E i \in 1..(Len(yielded) - 1) :
          /\ SubSeq(yielded[i], 5, 6) = <<"1", "2">>
          /\ SubSeq(yielded[i + 1], 5, 6) = <<"0", "1">>

-----------------------------------------------------------------------------
(* bytes.decode for the three encodings of lines 92 and 129 *)

DecodeError == [ok |-> FALSE, text |-> <<>>]
Decoded(text) == [ok |-> TRUE, text |-> text]

IsCont(b) == b >= 128 /\ b <= 191

\* Number of bytes of the UTF-8 sequence that starts s, 0 when it is
\* ill-formed (strict decoding: no overlong forms, no surrogates, at most
\* U+10FFFF).
Utf8SeqLen(s) ==
    LET b == s[1]
        n == Len(s)
    IN IF b < 128 THEN 1
       ELSE IF b >= 194 /\ b <= 223
            THEN IF n >= 2 /\ IsCont(s[2]) THEN 2 ELSE 0
       ELSE IF b >= 224 /\ b <= 239
            THEN IF /\ n >= 3
                    /\ IsCont(s[2])
                    /\ IsCont(s[3])
                    /\ (b = 224 => s[2] >= 160)
                    /\ (b = 237 => s[2] <= 159)
                 THEN 3 ELSE 0
       ELSE IF b >= 240 /\ b <= 244
            THEN IF /\ n >= 4
                    /\ IsCont(s[2])
                    /\ IsCont(s[3])
                    /\ IsCont(s[4])
                    /\ (b = 240 => s[2] >= 144)
                    /\ (b = 244 => s[2] <= 143)
                 THEN 4 ELSE 0
       ELSE 0

Utf8CodePoint(s, k) ==
    IF k = 1 THEN s[1]
    ELSE IF k = 2 THEN (s[1] % 32) * 64 + (s[2] % 64)
    ELSE IF k = 3 THEN (s[1] % 16) * 4096 + (s[2] % 64) * 64 + (s[3] % 64)
    ELSE (s[1] % 8) * 262144 + (s[2] % 64) * 4096 + (s[3] % 64) * 64 + (s[4] % 64)

RECURSIVE DecodeUtf8(_)
DecodeUtf8(s) ==
    IF Len(s) = 0 THEN Decoded(<<>>)
    ELSE LET k == Utf8SeqLen(s)
         IN IF k = 0 THEN DecodeError
            ELSE LET rest == DecodeUtf8(SubSeq(s, k + 1, Len(s)))
                 IN IF rest.ok
                    THEN Decoded(<<Utf8CodePoint(s, k)>> \o rest.text)
                    ELSE DecodeError

\* cp1252, bytes 0x80..0x9F; 0 marks the five bytes Python leaves undefined
Cp1252High ==
    <<8364, 0, 8218, 402, 8222, 8230, 8224, 8225,
      710, 8240, 352, 8249, 338, 0, 381, 0,
      0, 8216, 8217, 8220, 8221, 8226, 8211, 8212,
      732, 8482, 353, 8250, 339, 0, 382, 376>>

Cp1252Char(b) == IF b >= 128 /\ b <= 159 THEN Cp1252High[b - 127] ELSE b

DecodeCp1252(s) ==
    IF \E i \in 1..Len(s) : Cp1252Char(s[i]) = 0 /\ s[i] # 0
    THEN DecodeError
    ELSE Decoded([i \in 1..Len(s) |-> Cp1252Char(s[i])])

DecodeLatin1(s) == Decoded(s)

\* csv_content.decode(encoding)
Decode(encoding, s) ==
    IF encoding = "utf-8" THEN DecodeUtf8(s)
    ELSE IF encoding = "cp1252" THEN DecodeCp1252(s)
    ELSE DecodeLatin1(s)

\* str.encode("utf-8") of one character
EncodeUtf8Char(c) ==
    IF c < 128 THEN <<c>>
    ELSE IF c < 2048 THEN <<192 + (c \div 64), 128 + (c % 64)>>
    ELSE IF c < 65536
         THEN <<224 + (c \div 4096), 128 + ((c \div 64) % 64), 128 + (c % 64)>>
    ELSE <<240 + (c \div 262144), 128 + ((c \div 4096) % 64),
           128 + ((c \div 64) % 64), 128 + (c % 64)>>

RECURSIVE EncodeUtf8(_)
EncodeUtf8(text) ==
    IF Len(text) = 0 THEN <<>>
    ELSE EncodeUtf8Char(text[1]) \o EncodeUtf8(SubSeq(text, 2, Len(text)))

RECURSIVE TranslateNewlines(_, _)
\* text mode with newline=None: every "\n" written becomes os.linesep
TranslateNewlines(bytes, linesep) ==
    IF Len(bytes) = 0 THEN <<>>
    ELSE (IF bytes[1] = 10 THEN linesep ELSE <<bytes[1]>>)
         \o TranslateNewlines(SubSeq(bytes, 2, Len(bytes)), linesep)

\* the bytes csv_path.write_text(text, encoding='utf-8') leaves in the file
WriteText(text, linesep) == TranslateNewlines(EncodeUtf8(text), linesep)

-----------------------------------------------------------------------------
(* download_and_extract and download_csv_direct *)

\* the list of lines 92 and 129
Encodings == <<"utf-8", "cp1252", "latin-1">>

FetcherReturn(ret, raised, encoding, tried, file) ==
    [ret |-> ret, raised |-> raised, encoding |-> encoding,
     tried |-> tried, file |-> file]

RECURSIVE DecodeLoop(_, _, _, _, _)
\* The for loop of lines 92-105 (129-142) from its i-th iteration on.
\* write_exc is the exception write_text raises, "none" when it succeeds.
\* "raised" is what leaves the loop as an exception.
DecodeLoop(content, i, tried, linesep, write_exc) ==
    IF i > Len(Encodings)
    THEN FetcherReturn(FALSE, "none", "none", tried, <<>>)
    ELSE LET encoding == Encodings[i]
             text == Decode(encoding, content)
             t == Append(tried, encoding)
         IN IF text.ok
            THEN IF write_exc # "none"
                 THEN FetcherReturn(FALSE, write_exc, "none", t, <<>>)
                 ELSE FetcherReturn(TRUE, "none", encoding, t,
                                    WriteText(text.text, linesep))
            ELSE IF encoding = "latin-1"
                 THEN FetcherReturn(FALSE, "UnicodeDecodeError", "none", t, <<>>)
                 ELSE DecodeLoop(content, i + 1, t, linesep, write_exc)

\* faulty variant: no generic except clause
MutZipHandlersNoGeneric == {"RequestException", "BadZipFile"}
\* the except clauses of lines 106-114 and of lines 143-148
ZipHandlers == {"RequestException", "BadZipFile", "Exception"}
CsvHandlers == {"RequestException", "Exception"}

\* every exception of the model is a subclass of Exception
Catches(handlers, exc) == exc \in handlers \/ "Exception" \in handlers

\* What the call gives its caller: the value returned, the exception an
\* except clause caught, and the exception that escaped the function.
FetcherOutcome(r, handlers) ==
    IF r.raised = "none"
    THEN [ret |-> r.ret, caught |-> "none", escaped |-> "none",
          encoding |-> r.encoding, tried |-> r.tried, file |-> r.file]
    ELSE IF Catches(handlers, r.raised)
    THEN [ret |-> FALSE, caught |-> r.raised, escaped |-> "none",
          encoding |-> "none", tried |-> r.tried, file |-> r.file]
    ELSE [ret |-> FALSE, caught |-> "none", escaped |-> r.raised,
          encoding |-> "none", tried |-> r.tried, file |-> r.file]

\* A response of the server and of the local disk to one fetch:
\*   get      "ok", or "RequestException" (requests.get or raise_for_status)
\*   archive  "ok", "BadZipFile", or "KeyError" (no such entry in the archive)
\*   content  the bytes of the CSV
\*   write    "none", or "OSError" raised by write_text
Response(get, archive, content, write) ==
    [get |-> get, archive |-> archive, content |-> content, write |-> write]

download_and_extract(resp, linesep) ==
    FetcherOutcome(
        IF resp.get # "ok"
        THEN FetcherReturn(FALSE, resp.get, "none", <<>>, <<>>)
        ELSE IF resp.archive # "ok"
        THEN FetcherReturn(FALSE, resp.archive, "none", <<>>, <<>>)
        ELSE DecodeLoop(resp.content, 1, <<>>, linesep, resp.write),
        ZipHandlers)

download_csv_direct(resp, linesep) ==
    FetcherOutcome(
        IF resp.get # "ok"
        THEN FetcherReturn(FALSE, resp.get, "none", <<>>, <<>>)
        ELSE DecodeLoop(resp.content, 1, <<>>, linesep, resp.write),
        CsvHandlers)

-----------------------------------------------------------------------------
(* The fetchers on their own *)

SampleBytes == {10, 65, 128, 129, 169, 195, 226}

RECURSIVE ByteStrings(_)
ByteStrings(n) ==
    IF n = 0 THEN {<<>>}
    ELSE LET shorter == ByteStrings(n - 1)
         IN shorter \cup {Append(s, b) : s \in shorter, b \in SampleBytes}

LineSeps == {<<10>>, <<13, 10>>}

CallExtract ==
    /\ fetcher_pc = "call"
    /\ variant = "zip"
    /\ \E get \in {"ok", "RequestException"},
          archive \in {"ok", "BadZipFile", "KeyError"},
          write \in {"none", "OSError"} :
          fetcher_result' = download_and_extract(
              Response(get, archive, csv_content, write), os_linesep)
    /\ fetcher_pc' = "returned"
    /\ UNCHANGED <<start_date, now, csv_content, os_linesep, variant>>
    /\ UNCHANGED genVars
    /\ UNCHANGED mainVars

CallDirect ==
    /\ fetcher_pc = "call"
    /\ variant = "csv"
    /\ \E get \in {"ok", "RequestException"},
          write \in {"none", "OSError"} :
          fetcher_result' = download_csv_direct(
              Response(get, "ok", csv_content, write), os_linesep)
    /\ fetcher_pc' = "returned"
    /\ UNCHANGED <<start_date, now, csv_content, os_linesep, variant>>
    /\ UNCHANGED genVars
    /\ UNCHANGED mainVars

InitFetcher ==
    /\ start_date = StartDate(NowDate[1], NowDate[2], 2)
    /\ now = NowDate
    /\ IdleGen
    /\ IdleMain
    /\ csv_content \in ByteStrings(MaxLen)
    /\ os_linesep \in LineSeps
    /\ variant \in {"zip", "csv"}
    /\ fetcher_pc = "call"
    /\ fetcher_result = <<>>

NextFetcher == CallExtract \/ CallDirect

SpecFetcher == InitFetcher /\ [][NextFetcher]_vars

-----------------------------------------------------------------------------
(* main *)

BASE_URL == "https://www.revenue.wi.gov/SLFReportsHistSales"

\* line 167
max_consecutive_404s == 3

\* the loop variable of line 169
month == yielded[Len(yielded)]
\* lines 170-171
filename == month \o <<"C", "S", "V">>
csv_name == filename \o <<".csv">>
zip_name == filename \o <<".zip">>
\* lines 180-181
zip_url == <<BASE_URL, "/">> \o zip_name
csv_url == <<BASE_URL, "/">> \o csv_name

\* filename.replace(".zip", ".csv") of line 83
ReplaceExt(name, old, new) ==
    [i \in 1..Len(name) |-> IF name[i] = old THEN new ELSE name[i]]

\* line 162: the stems of the names matching *.csv
Stems(files) ==
    {SubSeq(f, 1, Len(f) - 1) : f \in {g \in files : g[Len(g)] = ".csv"}}

\* file_exists: True only for status 200; a RequestException gives False
file_exists(head) == head = "200"

HeadResponses == {"200", "404", "RequestException"}

\* faulty variant: the skip test never succeeds
MutNeverPresent(name) == FALSE
\* line 174
AlreadyPresent(name) == name \in existing_files

\* faulty variant: a found month leaves the counter as it is
MutKeepCounter(n) == n
\* lines 185 and 192
ResetCounter(n) == 0

\* faulty variant: the run stops one miss later
MutStopLater(n) == n > max_consecutive_404s
\* line 202
ShouldStop(n) == n >= max_consecutive_404s

\* faulty variant: a failed fetch is counted too
MutCountAlways(n, ok) == n + 1
\* lines 189 and 196
CountDownload(n, ok) == IF ok THEN n + 1 ELSE n

\* faulty variant: a failed archive fetch falls back to the bare url
MutRetryAsCsv(ok) == IF ok THEN "loop" ELSE "probe_csv"
\* where main goes after download_and_extract returns (lines 188-189)
AfterZipFetch(ok) == "loop"

\* faulty variant: the break leaves main without the summary
MutExitOnBreak(broke) == IF broke THEN "done" ELSE "summary"
\* where main goes when the for loop ends or breaks (lines 204-207)
AfterLoop(broke) == "summary"

SampleContents == {<<65>>, <<169>>, <<129>>}

ZipResponses ==
    {Response(get, archive, content, write) :
        get \in {"ok", "RequestException"},
        archive \in {"ok", "BadZipFile", "KeyError"},
        content \in SampleContents,
        write \in {"none", "OSError"}}

CsvResponses ==
    {Response(get, "ok", content, write) :
        get \in {"ok", "RequestException"},
        content \in SampleContents,
        write \in {"none", "OSError"}}

\* line 169: the for statement asks the generator for the next month
ForNext ==
    /\ pc = "loop"
    /\ GenNext
    /\ pc' = IF gen_pc' = "yielded" THEN "body" ELSE AfterLoop(FALSE)
    /\ caught' = "none"
    /\ UNCHANGED <<start_date, now, existing_files, dir_files, downloaded,
                   skipped, consecutive_404s, requests, found, outcomes,
                   fetch_ok, stopped, summaries>>
    /\ UNCHANGED fetcherVars

\* lines 174-177
SkipExisting ==
    /\ pc = "body"
    /\ AlreadyPresent(filename)
    /\ skipped' = skipped + 1
    /\ outcomes' = Append(outcomes, <<filename, "skip">>)
    /\ pc' = "loop"
    /\ UNCHANGED <<start_date, now, existing_files, dir_files, downloaded,
                   consecutive_404s, requests, found, fetch_ok, caught,
                   stopped, summaries>>
    /\ UNCHANGED genVars
    /\ UNCHANGED fetcherVars

\* lines 183-185: HEAD on the archive url
ProbeZip ==
    /\ pc = "body"
    /\ ~AlreadyPresent(filename)
    /\ requests' = Append(requests, <<"HEAD", zip_url>>)
    /\ \E head \in HeadResponses :
          IF file_exists(head)
          THEN /\ found' = found \cup {zip_url}
               /\ consecutive_404s' = ResetCounter(consecutive_404s)
               /\ outcomes' = Append(outcomes, <<filename, "found">>)
               /\ pc' = "fetch_zip"
          ELSE /\ pc' = "probe_csv"
               /\ UNCHANGED <<found, consecutive_404s, outcomes>>
    /\ UNCHANGED <<start_date, now, existing_files, dir_files, downloaded,
                   skipped, fetch_ok, caught, stopped, summaries>>
    /\ UNCHANGED genVars
    /\ UNCHANGED fetcherVars

\* what main does with the outcome r of a fetcher call
Fetched(r, saved_name, next_pc) ==
    /\ caught' = r.caught
    /\ IF r.escaped # "none"
       THEN /\ pc' = "crashed"
            /\ UNCHANGED <<downloaded, fetch_ok, dir_files>>
       ELSE /\ downloaded' = CountDownload(downloaded, r.ret)
            /\ fetch_ok' = IF r.ret THEN fetch_ok \cup {filename} ELSE fetch_ok
            /\ dir_files' = IF r.ret THEN dir_files \cup {saved_name} ELSE dir_files
            /\ pc' = next_pc

\* lines 188-189: GET the archive, extract, decode, write
FetchZip ==
    /\ pc = "fetch_zip"
    /\ requests' = Append(requests, <<"GET", zip_url>>)
    /\ \E resp \in ZipResponses :
          LET r == download_and_extract(resp, os_linesep)
          IN Fetched(r, ReplaceExt(zip_name, ".zip", ".csv"), AfterZipFetch(r.ret))
    /\ UNCHANGED <<start_date, now, existing_files, skipped, consecutive_404s,
                   found, outcomes, stopped, summaries>>
    /\ UNCHANGED genVars
    /\ UNCHANGED fetcherVars

\* lines 190-192 and 197-204: HEAD on the bare url, or the month is a miss
ProbeCsv ==
    /\ pc = "probe_csv"
    /\ requests' = Append(requests, <<"HEAD", csv_url>>)
    /\ \E head \in HeadResponses :
          IF file_exists(head)
          THEN /\ found' = found \cup {csv_url}
               /\ consecutive_404s' = ResetCounter(consecutive_404s)
               /\ outcomes' = Append(outcomes, <<filename, "found">>)
               /\ pc' = "fetch_csv"
               /\ UNCHANGED stopped
          ELSE /\ consecutive_404s' = consecutive_404s + 1
               /\ outcomes' = Append(outcomes, <<filename, "miss">>)
               /\ IF ShouldStop(consecutive_404s')
                  THEN /\ stopped' = TRUE
                       /\ pc' = AfterLoop(TRUE)
                  ELSE /\ pc' = "loop"
                       /\ UNCHANGED stopped
               /\ UNCHANGED found
    /\ UNCHANGED <<start_date, now, existing_files, dir_files, downloaded,
                   skipped, fetch_ok, caught, summaries>>
    /\ UNCHANGED genVars
    /\ UNCHANGED fetcherVars

\* lines 195-196: GET the bare file, decode, write
FetchCsv ==
    /\ pc = "fetch_csv"
    /\ requests' = Append(requests, <<"GET", csv_url>>)
    /\ \E resp \in CsvResponses :
          LET r == download_csv_direct(resp, os_linesep)
          IN Fetched(r, csv_name, "loop")
    /\ UNCHANGED <<start_date, now, existing_files, skipped, consecutive_404s,
                   found, outcomes, stopped, summaries>>
    /\ UNCHANGED genVars
    /\ UNCHANGED fetcherVars

\* lines 206-207
Summary ==
    /\ pc = "summary"
    /\ summaries' = summaries + 1
    /\ pc' = "done"
    /\ UNCHANGED <<start_date, now, existing_files, dir_files, downloaded,
                   skipped, consecutive_404s, requests, found, outcomes,
                   fetch_ok, caught, stopped>>
    /\ UNCHANGED genVars
    /\ UNCHANGED fetcherVars

\* the months a controller run can meet: span months ending with NowDate
Window(span) ==
    (MonthIndex(NowDate[1], NowDate[2]) - span + 1)
        .. MonthIndex(NowDate[1], NowDate[2])

CsvNameOf(i) ==
    MonthString(MonthOfIndex(i)[1], MonthOfIndex(i)[2]) \o <<"C", "S", "V", ".csv">>

\* a file of the directory that is no *.csv
StrayFile == MonthString(NowDate[1], NowDate[2]) \o <<"C", "S", "V", ".zip">>

\* The state after lines 152-167: the directory holds any of the window's
\* csv files, or only a stray archive; the start month is any month of the
\* window or the month after now.
InitMain(span) ==
    /\ \E i \in Window(span) \cup {MonthIndex(NowDate[1], NowDate[2]) + 1} :
          start_date = StartDate(MonthOfIndex(i)[1], MonthOfIndex(i)[2], 2)
    /\ now = NowDate
    /\ IdleGen
    /\ dir_files \in SUBSET {CsvNameOf(i) : i \in Window(span)} \cup {{StrayFile}}
    /\ existing_files = Stems(dir_files)
    /\ pc = "loop"
    /\ downloaded = 0
    /\ skipped = 0
    /\ consecutive_404s = 0
    /\ requests = <<>>
    /\ found = {}
    /\ outcomes = <<>>
    /\ fetch_ok = {}
    /\ caught = "none"
    /\ stopped = FALSE
    /\ summaries = 0
    /\ IdleFetcher

Init == InitMain(MaxSpan)

Next ==
    \/ ForNext
    \/ SkipExisting
    \/ ProbeZip
    \/ FetchZip
    \/ ProbeCsv
    \/ FetchCsv
    \/ Summary

Spec == Init /\ [][Next]_vars

\* Longer runs from a directory that holds at most one csv file: the start
\* month is StreakSpan months back.
InitStreak ==
    /\ InitMain(StreakSpan)
    /\ start_date = LET p == MonthOfIndex(MonthIndex(NowDate[1], NowDate[2])
                                            - StreakSpan + 1)
                    IN StartDate(p[1], p[2], 2)
    /\ Cardinality(dir_files) <= 1
    /\ StrayFile \notin dir_files

SpecStreak == InitStreak /\ [][Next]_vars

\* the script runs to its end: no step of main waits on anything but a
\* request bounded by its timeout
FairSpec == InitMain(LiveSpan) /\ [][Next]_vars /\ WF_vars(Next)

-----------------------------------------------------------------------------
(* Reading the history of a run *)

Range(seq) == {seq[i] : i \in 1..Len(seq)}

\* the file name (without extension) a url asks for, and its extension
NameOf(url) == SubSeq(url, 3, Len(url) - 1)
ExtOf(url) == url[Len(url)]
UrlOf(name, ext) == <<BASE_URL, "/">> \o name \o <<ext>>

\* what happened to the months that were not skipped, in order
ProbedKinds ==
    LET probed == SelectSeq(outcomes, LAMBDA o : o[2] # "skip")
    IN [i \in 1..Len(probed) |-> probed[i][2]]

RECURSIVE TrailingMisses(_)
\* length of the run of "miss" that ends a sequence of kinds
TrailingMisses(kinds) ==
    IF Len(kinds) = 0 \/ kinds[Len(kinds)] # "miss" THEN 0
    ELSE 1 + TrailingMisses(SubSeq(kinds, 1, Len(kinds) - 1))

Processed == {outcomes[i][1] : i \in 1..Len(outcomes)}

\* the file names of the months from the start month to now
MonthsOfRun == {ExpectedMonths[i] \o <<"C", "S", "V">> : i \in 1..ExpectedCount}

-----------------------------------------------------------------------------
(* C2 *)

\* C2: the run stops early exactly when the last three probed months were
\* all misses (no found month in between): at the third miss the loop is
\* left, that month's bare-url probe is the last request and no further
\* month is enumerated; a streak broken by a found month does not stop the
\* run, so miss, miss, found, miss, miss, miss stops only at the sixth month.
C2_EarlyStop ==
    /\ stopped <=> TrailingMisses(ProbedKinds) >= 3
    /\ stopped =>
          /\ pc \in {"summary", "done"}
          /\ outcomes[Len(outcomes)][2] = "miss"
          /\ Len(yielded) = Len(outcomes)
          /\ requests[Len(requests)] =
                <<"HEAD", UrlOf(outcomes[Len(outcomes)][1], ".csv")>>
          /\ TrailingMisses(SubSeq(ProbedKinds, 1, Len(ProbedKinds) - 1)) = 2
    /\ ProbedKinds = <<"miss", "miss", "found", "miss", "miss">> => ~stopped

C2_Witness ==
    /\ pc = "done"
    /\ stopped
    /\ ProbedKinds = <<"miss", "miss", "found", "miss", "miss", "miss">>

-----------------------------------------------------------------------------
(* C3 *)

RequestedNames == {NameOf(requests[i][2]) : i \in 1..Len(requests)}

\* C3 as stated: whenever the directory holds the files of k months of the
\* run's range, the run ends with a skip count of k and without a request
\* for any of them.
C3_SkipsAllPresent ==
    (pc = "done" /\ existing_files \subseteq MonthsOfRun) =>
        /\ skipped = Cardinality(existing_files)
        /\ RequestedNames \cap existing_files = {}

\* C3, amended: the run skips exactly the locally present months it
\* reaches, the skip count is their number (all the present months of the
\* range when the run does not stop early), and no request is ever issued
\* for a locally present month.
C3_SkipsReached ==
    /\ RequestedNames \cap existing_files = {}
    /\ \A i \in 1..Len(outcomes) :
          outcomes[i][2] = "skip" <=> outcomes[i][1] \in existing_files
    /\ skipped = Cardinality(Processed \cap existing_files)
    /\ skipped <= Cardinality(existing_files)
    /\ (pc = "done" /\ ~stopped) =>
          skipped = Cardinality(MonthsOfRun \cap existing_files)

\* a finished run that skipped one present month and never reached another
C3_Witness ==
    /\ pc = "done"
    /\ skipped >= 1
    /\ requests # <<>>
    /\ (existing_files \cap MonthsOfRun) \ Processed # {}

-----------------------------------------------------------------------------
(* C5 *)

FetcherErrors == {"RequestException", "BadZipFile", "KeyError", "OSError"}

\* C5: no exception leaves a fetcher, and a fetch that fails with a network
\* error, a bad archive or any other error leaves the downloaded count as
\* it was and hands control back to the loop, which goes on to the next
\* month.
C5_FailureIsPerFile ==
    /\ [](pc # "crashed")
    /\ [][(pc \in {"fetch_zip", "fetch_csv"} /\ caught' # "none") =>
             /\ caught' \in FetcherErrors
             /\ downloaded' = downloaded
             /\ fetch_ok' = fetch_ok
             /\ pc' = "loop"
             /\ gen_pc' = "yielded"]_vars

\* a failed fetch of one month followed by a successful fetch of a later one
C5_Witness ==
    /\ pc = "done"
    /\ \E i, j \in 1..Len(requests) :
          /\ i < j
          /\ requests[i][1] = "GET"
          /\ NameOf(requests[i][2]) \notin fetch_ok
          /\ requests[j][1] = "GET"
          /\ NameOf(requests[j][2]) \in fetch_ok

-----------------------------------------------------------------------------
(* C6 *)

WasFound(name) == UrlOf(name, ".zip") \in found \/ UrlOf(name, ".csv") \in found

\* C6: downloaded is the number of processed months that were absent
\* locally, were found by a probe and were fetched successfully; skipped is
\* the number of processed months present locally.  With start 2020-01,
\* now 2020-03, an empty directory, the archive found and fetched for
\* 202001 and 202002 and nothing found for 202003, the run ends with 2
\* downloaded, 0 skipped and no early stop.
C6_Counts ==
    /\ downloaded = Cardinality({n \in Processed :
                        n \notin existing_files /\ WasFound(n) /\ n \in fetch_ok})
    /\ skipped = Cardinality({n \in Processed : n \in existing_files})
    /\ (/\ pc = "done"
        /\ start_date = <<"2", "0", "2", "0", "-", "0", "1">>
        /\ now = <<2020, 3>>
        /\ existing_files = {}
        /\ found = {<<BASE_URL, "/", "2", "0", "2", "0", "0", "1", "C", "S", "V", ".zip">>,
                    <<BASE_URL, "/", "2", "0", "2", "0", "0", "2", "C", "S", "V", ".zip">>}
        /\ Cardinality(fetch_ok) = 2)
       => (downloaded = 2 /\ skipped = 0 /\ ~stopped /\ summaries = 1)

C6_Witness ==
    /\ pc = "done"
    /\ start_date = <<"2", "0", "2", "0", "-", "0", "1">>
    /\ now = <<2020, 3>>
    /\ existing_files = {}
    /\ found = {<<BASE_URL, "/", "2", "0", "2", "0", "0", "1", "C", "S", "V", ".zip">>,
                <<BASE_URL, "/", "2", "0", "2", "0", "0", "2", "C", "S", "V", ".zip">>}
    /\ Cardinality(fetch_ok) = 2
    /\ downloaded = 2
    /\ outcomes[3] = <<<<"2", "0", "2", "0", "0", "3", "C", "S", "V">>, "miss">>

-----------------------------------------------------------------------------
(* C8 *)

\* C8: every run reaches its end; the loop is left only when the generator
\* is exhausted or the early stop was taken; the summary is printed exactly
\* once, and nothing happens after it.
C8_TerminatesWithSummary ==
    /\ <>(pc = "done")
    /\ [](summaries = IF pc = "done" THEN 1 ELSE 0)
    /\ [](pc \in {"summary", "done"} => (gen_pc = "exhausted" \/ stopped))
    /\ [](pc \in {"summary", "done"} => ~(gen_pc = "exhausted" /\ stopped))
    /\ [][pc # "done"]_vars

\* a run that ended by the early stop after a download
C8_Witness ==
    /\ pc = "done"
    /\ summaries = 1
    /\ stopped
    /\ downloaded >= 1

-----------------------------------------------------------------------------
(* C9 *)

RequestsFor(name, method) ==
    {i \in 1..Len(requests) :
        requests[i][1] = method /\ NameOf(requests[i][2]) = name}

\* C9: per month at most one GET, and only on a url whose HEAD came back
\* true just before; the archive url is probed first and the bare url only
\* right after an archive probe that came back false; once the archive was
\* found the bare url is never requested, whatever the fetch returned; no
\* request is ever repeated.
C9_OneFetchPerMonth ==
    /\ \A i, j \in 1..Len(requests) : requests[i] = requests[j] => i = j
    /\ \A name \in RequestedNames : Cardinality(RequestsFor(name, "GET")) <= 1
    /\ \A i \in 1..Len(requests) :
          LET url == requests[i][2]
              name == NameOf(url)
          IN /\ requests[i][1] = "GET" =>
                  /\ url \in found
                  /\ i > 1
                  /\ requests[i - 1] = <<"HEAD", url>>
             /\ (requests[i][1] = "HEAD" /\ ExtOf(url) = ".csv") =>
                  /\ i > 1
                  /\ requests[i - 1] = <<"HEAD", UrlOf(name, ".zip")>>
                  /\ UrlOf(name, ".zip") \notin found
             /\ ExtOf(url) = ".csv" => UrlOf(name, ".zip") \notin found
             /\ (i < Len(requests) /\ NameOf(requests[i + 1][2]) # name) =>
                  \A k \in (i + 1)..Len(requests) : NameOf(requests[k][2]) # name

\* the archive was found, its fetch failed, and the run went on to a later
\* month without touching the bare url
C9_Witness ==
    \E i \in 1..Len(requests) :
        /\ requests[i][1] = "GET"
        /\ ExtOf(requests[i][2]) = ".zip"
        /\ NameOf(requests[i][2]) \notin fetch_ok
        /\ i < Len(requests)
        /\ pc = "done"

-----------------------------------------------------------------------------
(* C10 *)

RECURSIVE MissesSinceFound(_)
\* the misses recorded since the last month a probe found ("skip" entries
\* count for nothing)
MissesSinceFound(log) ==
    IF Len(log) = 0 \/ log[Len(log)][2] = "found" THEN 0
    ELSE (IF log[Len(log)][2] = "miss" THEN 1 ELSE 0)
         + MissesSinceFound(SubSeq(log, 1, Len(log) - 1))

\* C10: consecutive_404s stays within 0..3 and is the number of misses since
\* the last month a probe found, whether or not that month's fetch
\* succeeded and however many skipped months lie in between; at 3 the run
\* has stopped.
C10_MissCounter ==
    /\ consecutive_404s \in 0..max_consecutive_404s
    /\ consecutive_404s = MissesSinceFound(outcomes)
    /\ consecutive_404s = max_consecutive_404s <=> stopped

\* an early stop whose three misses are separated by a skipped month, after
\* a found month whose fetch failed
C10_Witness ==
    /\ stopped
    /\ \E i \in 1..Len(outcomes) :
          /\ outcomes[i][2] = "found"
          /\ outcomes[i][1] \notin fetch_ok
          /\ i + 4 = Len(outcomes)
          /\ \E j \in (i + 2)..(i + 3) : outcomes[j][2] = "skip"

-----------------------------------------------------------------------------
(* C7 *)

\* the first encoding of the list that decodes the bytes
FirstDecoding(content) ==
    Encodings[CHOOSE i \in 1..Len(Encodings) :
                 /\ Decode(Encodings[i], content).ok
                 /\ \A j \in 1..(i - 1) : ~Decode(Encodings[j], content).ok]

\* C7, the choice of the encoding: both fetchers try utf-8, cp1252, latin-1
\* in this order and take the first that decodes.
EncodingChoice ==
    (fetcher_pc = "returned" /\ fetcher_result.tried # <<>>) =>
        /\ fetcher_result.tried =
              SubSeq(Encodings, 1, Len(fetcher_result.tried))
        /\ fetcher_result.ret =>
              /\ fetcher_result.encoding = FirstDecoding(csv_content)
              /\ fetcher_result.encoding =
                    fetcher_result.tried[Len(fetcher_result.tried)]

\* C7, the file: it holds the decoded text encoded as utf-8, so that utf-8
\* input is written back byte for byte.
FileIsUtf8OfText ==
    (fetcher_pc = "returned" /\ fetcher_result.ret) =>
        /\ fetcher_result.file =
              EncodeUtf8(Decode(fetcher_result.encoding, csv_content).text)
        /\ DecodeUtf8(csv_content).ok => fetcher_result.file = csv_content

\* C7, the two variants: the same bytes give the same result
VariantsAgree ==
    LET resp == Response("ok", "ok", csv_content, "none")
    IN download_and_extract(resp, os_linesep) = download_csv_direct(resp, os_linesep)

\* C7: both fetchers try utf-8, cp1252, latin-1 in this order, take the
\* first that decodes, and write the decoded text as utf-8, the same for
\* both variants; utf-8 input is written back byte for byte.
C7_Decoder == EncodingChoice /\ FileIsUtf8OfText /\ VariantsAgree

\* C7 where os.linesep is "\n"
C7_DecoderWithLf == os_linesep = <<10>> => C7_Decoder

\* C7 for content without a line feed
C7_DecoderNoLf == 10 \notin Range(csv_content) => C7_Decoder

\* latin-1 decodes every byte string: the raise of lines 102 and 139 is
\* never executed
ExhaustionUnreachable ==
    /\ fetcher_pc = "returned" =>
          /\ fetcher_result.caught # "UnicodeDecodeError"
          /\ fetcher_result.escaped = "none"
    /\ caught # "UnicodeDecodeError"

====
